---- MODULE Spec2Model ----
(***************************************************************************)
(* Model of the embedding / vector-store core of shelter-match-rag:        *)
(*   src/src/embedding/vector_store.py      (VectorStore)                  *)
(*   src/src/embedding/embedder.py          (Embedder)                     *)
(*   src/src/embedding/embedding_pipeline.py (EmbeddingPipeline)           *)
(*                                                                         *)
(* A vector is a record [dim, head]: a float vector of `dim` components    *)
(* whose first two components are `head` and whose other components        *)
(* are 0.  The representation is exact for such vectors, so the hard-coded *)
(* 1536-component zero vector of the embedder is a value of the model.     *)
(* Components are small integers; float32 rounding is not modelled.        *)
(***************************************************************************)
EXTENDS Integers, Sequences, FiniteSets, TLC

VARIABLES
    embedding_dim,  \* VectorStore.embedding_dim
    index,          \* VectorStore.index: the faiss IndexFlatL2, [d, vecs]
    metadata,       \* VectorStore.metadata: list of metadata dicts
    fs,             \* the file system: path -> file content
    saved,          \* history: what the last save call was given and held
    fresh,          \* history: the store is as constructed (nothing called on it yet)
    last,           \* observation of the last call: operation, arguments, outcome
    loop,           \* the frame of a get_embeddings call in progress
    threads         \* the frames of the add_embeddings calls of the threads

vars == <<embedding_dim, index, metadata, fs, saved, fresh, last, loop, threads>>

----------------------------------------------------------------------------
(* Bounds of the model *)

MaxCoord == 1       \* vector components range over 0..MaxCoord
MaxSize == 2        \* the store holds at most MaxSize entries
MaxTexts == 41      \* get_embeddings is called with at most MaxTexts texts
MaxIngests == 2     \* at most MaxIngests ingests get as far as saving
MaxRequests == 4    \* a get_embeddings call sends at most MaxRequests requests

\* lengths of the lists add_embeddings is called with
BatchLens == 0..2
\* dog_id of the metadata records
DogIds == {1, 2}
\* top_k of the searches: a number of results, never negative
TopKs == 0..(MaxSize + 1)

(* Program constants *)

DefaultDim == 1536      \* default embedding_dim of VectorStore / EmbeddingPipeline
ZeroVectorDim == 1536   \* length of the embedder's fallback zero vector
batch_size == 20        \* chunk size of Embedder.get_embeddings

Min(a, b) == IF a <= b THEN a ELSE b

----------------------------------------------------------------------------
(* Vectors *)

Vec(d, h) == [dim |-> d, head |-> h]

\* [0.0] * d
ZeroVector(d) == Vec(d, <<0, 0>>)

\* the dimensions a store or a pipeline is constructed with: that of the
\* default embedding model, and that of a model with larger vectors
Dims == {DefaultDim, 2 * DefaultDim}

\* the vectors of dimension d the callers pass
VecsOfDim(d) == {Vec(d, <<x, 0>>) : x \in 0..MaxCoord} \cup {Vec(d, <<0, 1>>)}

\* faiss IndexFlatL2 reports the SQUARED Euclidean distance
L2Sqr(a, b) ==
    LET RECURSIVE Sum(_)
        Sum(i) == IF i = 0 THEN 0
                  ELSE (a.head[i] - b.head[i]) * (a.head[i] - b.head[i]) + Sum(i - 1)
    IN Sum(Len(a.head))

\* faiss.IndexFlatL2(d): an empty flat index of dimension d
IndexFlatL2(d) == [d |-> d, vecs |-> <<>>]

\* index.ntotal
NTotal == Len(index.vecs)

----------------------------------------------------------------------------
(* Metadata records and search results *)

MetaRecord(id) == [dog_id |-> id]
MetaPool == {MetaRecord(id) : id \in DogIds}

\* 1.0 / (1.0 + distances[0][i]), kept as an exact fraction
SimilarityScoreWrong(dist) == [num |-> 1, den |-> 2 + dist]
SimilarityScore(dist) == [num |-> 1, den |-> 1 + dist]

\* result = self.metadata[idx].copy(); result["similarity_score"] = ...
Annotate(rec, dist) ==
    [k \in (DOMAIN rec) \cup {"similarity_score"} |->
        IF k = "similarity_score" THEN SimilarityScore(dist) ELSE rec[k]]

NoCall == [op |-> "none"]

\* no call in progress
Idle == [pc |-> "idle"]

\* the threads that call add_embeddings on one store
Threads == {1, 2}

----------------------------------------------------------------------------
(* The file system *)

Path(dir, name) == [dir |-> dir, name |-> name]
Paths == {Path("store", "a"), Path("store", "b"), Path("", "c")}

\* os.path.dirname(path)
Dirname(p) == p.dir

\* vector_store_dir of the pipeline; its constructor creates the directory
VectorStoreDir == "vector_store"

\* datetime.now().strftime("%Y%m%d_%H%M%S") of the ingests that save: the
\* first, second, ... second in which one does
Timestamps == 1..MaxIngests

\* os.path.join(vector_store_dir, f"dog_index_{timestamp}.faiss") and
\* os.path.join(vector_store_dir, f"dog_metadata_{timestamp}.pkl")
IndexPathAt(t) ==
    Path(VectorStoreDir, <<"dog_index_1.faiss", "dog_index_2.faiss",
                           "dog_index_3.faiss", "dog_index_4.faiss">>[t])
MetadataPathAt(t) ==
    Path(VectorStoreDir, <<"dog_metadata_1.pkl", "dog_metadata_2.pkl",
                           "dog_metadata_3.pkl", "dog_metadata_4.pkl">>[t])

latest_index_path == Path(VectorStoreDir, "dog_index_latest.faiss")
latest_metadata_path == Path(VectorStoreDir, "dog_metadata_latest.pkl")

PipelinePaths ==
    {IndexPathAt(t) : t \in Timestamps} \cup {MetadataPathAt(t) : t \in Timestamps}
        \cup {latest_index_path, latest_metadata_path}

AllPaths == Paths \cup PipelinePaths

\* the value "" returned in place of a path
NoPath == Path("", "")

Absent == [kind |-> "absent"]
Corrupt == [kind |-> "corrupt"]
IndexFile(ix) == [kind |-> "index", d |-> ix.d, vecs |-> ix.vecs]
MetaFile(recs) == [kind |-> "meta", records |-> recs]

\* os.path.exists(path)
Exists(p) == fs[p].kind # "absent"

\* faiss.read_index(path) succeeds
ReadsAsIndex(p) == fs[p].kind = "index"

\* open(path, 'rb') and pickle.load succeed
ReadsAsMetadata(p) == fs[p].kind = "meta"

NoSave == [valid |-> FALSE]

----------------------------------------------------------------------------
(* VectorStore *)

Init ==
    /\ embedding_dim \in Dims
    /\ index = IndexFlatL2(embedding_dim)
    /\ metadata = <<>>
    /\ fs = [p \in AllPaths |-> Absent]
    /\ saved = NoSave
    /\ fresh = TRUE
    /\ loop = Idle
    /\ threads = [t \in Threads |-> Idle]
    /\ last = NoCall

\* VectorStore(embedding_dim).  With artifact paths that both exist the
\* constructor goes on to call load, which is Construct followed by load.
Construct(d) ==
    /\ embedding_dim' = d
    /\ index' = IndexFlatL2(d)
    /\ metadata' = <<>>
    /\ fresh' = TRUE
    /\ last' = [op |-> "construct"]
    /\ UNCHANGED <<fs, saved>>
    /\ UNCHANGED <<loop, threads>>

\* np.array(embeddings).astype(np.float32) raises on rows of unequal length
Ragged(embeddings) ==
    \E i, j \in 1..Len(embeddings) : embeddings[i].dim # embeddings[j].dim

\* faiss index.add(x): n, d = x.shape; assert d == self.d
IndexAddAcceptsNoCheck(embeddings) == TRUE
IndexAddAccepts(embeddings) == embeddings[1].dim = index.d

\* the outcome of add_embeddings(embeddings, metadata_list)
AddOutcomeNoLenCheck(embeddings, metadata_list) ==
    IF embeddings = <<>> THEN "noop"
    ELSE IF Ragged(embeddings) THEN "ValueError"
    ELSE IF ~IndexAddAccepts(embeddings) THEN "AssertionError"
    ELSE "added"
AddOutcome(embeddings, metadata_list) ==
    IF Len(embeddings) # Len(metadata_list) THEN "ValueError"
    ELSE IF embeddings = <<>> THEN "noop"
    ELSE IF Ragged(embeddings) THEN "ValueError"
    ELSE IF ~IndexAddAccepts(embeddings) THEN "AssertionError"
    ELSE "added"

\* self.index.add(embeddings_np): reached only when nothing raised before it
IndexAfterAddPrepend(out, embeddings) ==
    IF out = "added" THEN [index EXCEPT !.vecs = embeddings \o index.vecs] ELSE index
IndexAfterAdd(out, embeddings) ==
    IF out = "added" THEN [index EXCEPT !.vecs = index.vecs \o embeddings] ELSE index

\* self.metadata.extend(metadata_list): reached only after index.add returned
MetadataAfterAddEager(out, metadata_list) ==
    IF out \in {"added", "AssertionError"} THEN metadata \o metadata_list ELSE metadata
MetadataAfterAddUnique(out, metadata_list) ==
    IF out = "added"
    THEN metadata \o SelectSeq(metadata_list,
                               LAMBDA rec : \A i \in 1..Len(metadata) :
                                               metadata[i].dog_id # rec.dog_id)
    ELSE metadata
MetadataAfterAdd(out, metadata_list) ==
    IF out = "added" THEN metadata \o metadata_list ELSE metadata

add_embeddings(embeddings, metadata_list) ==
    LET out == AddOutcome(embeddings, metadata_list) IN
    /\ out = "added" => /\ NTotal + Len(embeddings) <= MaxSize
                        /\ Len(metadata) + Len(metadata_list) <= MaxSize
    /\ index' = IndexAfterAdd(out, embeddings)
    /\ metadata' = MetadataAfterAdd(out, metadata_list)
    /\ fresh' = FALSE
    /\ last' = [op |-> "add_embeddings", embeddings |-> embeddings,
                metadata_list |-> metadata_list,
                raised |-> IF out \in {"added", "noop"} THEN "none" ELSE out]
    /\ UNCHANGED <<embedding_dim, fs, saved>>
    /\ UNCHANGED <<loop, threads>>

\* self.index = faiss.IndexFlatL2(self.embedding_dim)
IndexAfterClearDefault == IndexFlatL2(DefaultDim)
IndexAfterClear == IndexFlatL2(embedding_dim)

clear ==
    /\ index' = IndexAfterClear
    /\ metadata' = <<>>
    /\ fresh' = FALSE
    /\ last' = [op |-> "clear", raised |-> "none", had_entries |-> Len(metadata) > 0]
    /\ UNCHANGED <<embedding_dim, fs, saved>>
    /\ UNCHANGED <<loop, threads>>

get_size ==
    /\ last' = [op |-> "get_size", raised |-> "none", ret |-> Len(metadata)]
    /\ UNCHANGED <<embedding_dim, index, metadata, fs, saved, fresh>>
    /\ UNCHANGED <<loop, threads>>

\* faiss index.search(x, k) for one query: the k nearest stored vectors, nearest
\* first, as 0-based positions, padded with -1 when fewer than k are stored.
\* The order among equally distant vectors is not specified.
FaissSearchUnsorted(q, k) ==
    LET n == NTotal
        m == Min(k, n)
    IN { [i \in 1..k |-> IF i <= m THEN h[i] ELSE -1] :
            h \in { g \in [1..m -> 0..(n - 1)] :
                    \A i, j \in 1..m : i # j => g[i] # g[j] } }
FaissSearch(q, k) ==
    LET n == NTotal
        m == Min(k, n)
        D(pos) == L2Sqr(q, index.vecs[pos + 1])
    IN { [i \in 1..k |-> IF i <= m THEN h[i] ELSE -1] :
            h \in { g \in [1..m -> 0..(n - 1)] :
                    /\ \A i, j \in 1..m : i # j => g[i] # g[j]
                    /\ \A i, j \in 1..m : i < j => D(g[i]) <= D(g[j])
                    /\ \A i \in 1..m : \A pos \in 0..(n - 1) :
                          (\A j \in 1..m : g[j] # pos) => D(g[i]) <= D(pos) } }

\* distances[0][i] of a hit
HitDistance(q, idx) == IF idx >= 0 THEN L2Sqr(q, index.vecs[idx + 1]) ELSE -1

\* top_k as passed to faiss: min(top_k, len(self.metadata))
SearchKNoCap(top_k) == top_k
SearchK(top_k) == Min(top_k, Len(metadata))

\* the loop of search over indices[0]: hits without a metadata record are skipped
ValidHitUnchecked(idx) == TRUE
ValidHit(idx) == idx < Len(metadata) /\ idx >= 0

\* self.metadata[idx] of a Python list: a negative idx counts from the end,
\* an idx outside -len..len-1 raises IndexError
MetadataAt(idx) == metadata[IF idx < 0 THEN Len(metadata) + idx + 1 ELSE idx + 1]
RaisesIndexError(hits) ==
    \E i \in 1..Len(hits) :
        /\ ValidHit(hits[i])
        /\ (hits[i] >= Len(metadata) \/ hits[i] < 0 - Len(metadata))

SearchResultsReversed(q, hits) ==
    LET RECURSIVE Build(_)
        Build(i) ==
            IF i = 0 THEN <<>>
            ELSE IF ValidHit(hits[i])
                 THEN <<Annotate(MetadataAt(hits[i]), HitDistance(q, hits[i]))>>
                      \o Build(i - 1)
                 ELSE Build(i - 1)
    IN Build(Len(hits))
SearchResults(q, hits) ==
    LET RECURSIVE Build(_)
        Build(i) ==
            IF i = 0 THEN <<>>
            ELSE IF ValidHit(hits[i])
                 THEN Append(Build(i - 1),
                             Annotate(MetadataAt(hits[i]), HitDistance(q, hits[i])))
                 ELSE Build(i - 1)
    IN Build(Len(hits))

\* the hits that produced the results, in result order
KeptHits(hits) == SelectSeq(hits, ValidHit)

SearchRaise(q, top_k, exc) ==
    [op |-> "search", query |-> q, top_k |-> top_k, raised |-> exc]

SearchReturn(q, top_k, hits) ==
    IF RaisesIndexError(hits) THEN SearchRaise(q, top_k, "IndexError")
    ELSE [op |-> "search", query |-> q, top_k |-> top_k, raised |-> "none",
          ret |-> SearchResults(q, hits), hits |-> KeptHits(hits)]

\* the outcomes of search(query_embedding, top_k), top_k >= 0.  The faiss
\* wrapper asserts d == self.d and, in its newer releases, k > 0; older
\* releases answer k = 0 with empty arrays.
SearchOutcomesNoEmptyCheck(q, top_k) ==
    IF q.dim # index.d THEN {SearchRaise(q, top_k, "AssertionError")}
    ELSE IF SearchK(top_k) = 0
         THEN {SearchRaise(q, top_k, "AssertionError"), SearchReturn(q, top_k, <<>>)}
    ELSE {SearchReturn(q, top_k, hits) : hits \in FaissSearch(q, SearchK(top_k))}
SearchOutcomes(q, top_k) ==
    IF Len(metadata) = 0 THEN {SearchReturn(q, top_k, <<>>)}
    ELSE IF q.dim # index.d THEN {SearchRaise(q, top_k, "AssertionError")}
    ELSE IF SearchK(top_k) = 0
         THEN {SearchRaise(q, top_k, "AssertionError"), SearchReturn(q, top_k, <<>>)}
    ELSE {SearchReturn(q, top_k, hits) : hits \in FaissSearch(q, SearchK(top_k))}

\* self.metadata after a search: result = self.metadata[idx].copy() gives
\* the score to a copy, the stored records stay as they are
MetadataAfterSearchInPlace(r) ==
    IF r.raised # "none" THEN metadata
    ELSE [i \in 1..Len(metadata) |->
            IF \E j \in 1..Len(r.hits) : r.hits[j] = i - 1
            THEN Annotate(metadata[i], HitDistance(r.query, i - 1))
            ELSE metadata[i]]
MetadataAfterSearch(r) == metadata

search(q, top_k) ==
    /\ last' \in SearchOutcomes(q, top_k)
    /\ metadata' = MetadataAfterSearch(last')
    /\ UNCHANGED <<embedding_dim, index, fs, saved, fresh>>
    /\ UNCHANGED <<loop, threads>>

----------------------------------------------------------------------------
(* add_embeddings called by several threads on one store without a lock:    *)
(* a call is the validation, then self.index.add, then self.metadata.extend, *)
(* and the calls of other threads run between these steps.  Each of the two *)
(* appends is taken as one step.                                            *)

Adding(t) == threads[t].pc # "idle"

\* what the calls in progress will still append
RECURSIVE SumLen(_, _)
SumLen(S, field) ==
    IF S = {} THEN 0
    ELSE LET t == CHOOSE x \in S : TRUE
         IN Len(threads[t][field]) + SumLen(S \ {t}, field)
PendingIndex == SumLen({t \in Threads : threads[t].pc = "index_add"}, "embeddings")
PendingMetadata == SumLen({t \in Threads : Adding(t)}, "metadata_list")

\* lines 48-56: the checks; a rejected or empty call ends here
begin_add(t, embeddings, metadata_list) ==
    LET out == AddOutcome(embeddings, metadata_list) IN
    /\ ~Adding(t)
    /\ out = "added" => /\ NTotal + PendingIndex + Len(embeddings) <= MaxSize
                        /\ Len(metadata) + PendingMetadata + Len(metadata_list) <= MaxSize
    /\ threads' = [threads EXCEPT ![t] =
                      IF out = "added"
                      THEN [pc |-> "index_add", embeddings |-> embeddings,
                            metadata_list |-> metadata_list]
                      ELSE Idle]
    /\ last' = IF out = "added"
               THEN [op |-> "begin_add", thread |-> t]
               ELSE [op |-> "add_embeddings", thread |-> t, embeddings |-> embeddings,
                     metadata_list |-> metadata_list,
                     raised |-> IF out = "noop" THEN "none" ELSE out]
    /\ fresh' = FALSE
    /\ UNCHANGED <<embedding_dim, index, metadata, fs, saved, loop>>

\* self.metadata after the index.add of a call: not yet extended
MetadataAfterIndexAddLocked(t) == metadata \o threads[t].metadata_list
MetadataAfterIndexAdd(t) == metadata

\* line 59: self.index.add(embeddings_np)
add_index(t) ==
    /\ threads[t].pc = "index_add"
    /\ index' = IndexAfterAdd("added", threads[t].embeddings)
    /\ metadata' = MetadataAfterIndexAdd(t)
    /\ threads' = [threads EXCEPT ![t].pc = "metadata_extend"]
    /\ last' = [op |-> "index_add", thread |-> t]
    /\ UNCHANGED <<embedding_dim, fs, saved, fresh, loop>>

\* line 62: self.metadata.extend(metadata_list), and the call returns
add_metadata(t) ==
    /\ threads[t].pc = "metadata_extend"
    /\ metadata' = MetadataAfterAdd("added", threads[t].metadata_list)
    /\ threads' = [threads EXCEPT ![t] = Idle]
    /\ last' = [op |-> "add_embeddings", thread |-> t,
                embeddings |-> threads[t].embeddings,
                metadata_list |-> threads[t].metadata_list, raised |-> "none"]
    /\ UNCHANGED <<embedding_dim, index, fs, saved, fresh, loop>>

----------------------------------------------------------------------------
(* Persistence: save, load, and the environment of the artifacts *)

\* os.makedirs(os.path.dirname(path), exist_ok=True) raises FileNotFoundError
\* when the path has no directory part: os.makedirs('') fails
MakedirsRaises(index_path, metadata_path) ==
    Dirname(index_path) = "" \/ Dirname(metadata_path) = ""

\* faiss.write_index(self.index, index_path), then pickle.dump(self.metadata)
\* to metadata_path: the second write wins when the two paths are the same
FsAfterFirstWrite(index_path, metadata_path) ==
    [fs EXCEPT ![index_path] = IndexFile(index)]
FsAfterSave(index_path, metadata_path) ==
    [FsAfterFirstWrite(index_path, metadata_path)
        EXCEPT ![metadata_path] = MetaFile(metadata)]

save(index_path, metadata_path) ==
    LET raises == MakedirsRaises(index_path, metadata_path) IN
    /\ fs' = IF raises THEN fs ELSE FsAfterSave(index_path, metadata_path)
    /\ saved' = [valid |-> TRUE, index_path |-> index_path,
                 metadata_path |-> metadata_path, embedding_dim |-> embedding_dim,
                 index |-> index, metadata |-> metadata]
    /\ last' = IF raises
               THEN [op |-> "save", index_path |-> index_path,
                     metadata_path |-> metadata_path, raised |-> "FileNotFoundError"]
               ELSE [op |-> "save", index_path |-> index_path,
                     metadata_path |-> metadata_path, raised |-> "none",
                     ret |-> <<index_path, metadata_path>>]
    /\ UNCHANGED <<embedding_dim, index, metadata, fresh>>
    /\ UNCHANGED <<loop, threads>>

\* save when the process is stopped between its two writes: the first
\* artifact is written, the second is as it was
save_interrupted(index_path, metadata_path) ==
    /\ ~MakedirsRaises(index_path, metadata_path)
    /\ index_path # metadata_path
    /\ fs' = FsAfterFirstWrite(index_path, metadata_path)
    /\ saved' = IF saved.valid
                   /\ index_path \in {saved.index_path, saved.metadata_path}
                THEN NoSave ELSE saved
    /\ last' = [op |-> "save", index_path |-> index_path,
                metadata_path |-> metadata_path, raised |-> "interrupted"]
    /\ UNCHANGED <<embedding_dim, index, metadata, fresh>>
    /\ UNCHANGED <<loop, threads>>

\* the try block of load succeeds: both artifacts deserialize
LoadSucceeds(index_path, metadata_path) ==
    ReadsAsIndex(index_path) /\ ReadsAsMetadata(metadata_path)

\* self.index after load: the index read, or a new empty one (except branch)
IndexAfterLoadPartial(index_path, metadata_path) ==
    IF ReadsAsIndex(index_path)
    THEN [d |-> fs[index_path].d, vecs |-> fs[index_path].vecs]
    ELSE IndexFlatL2(embedding_dim)
IndexAfterLoad(index_path, metadata_path) ==
    IF LoadSucceeds(index_path, metadata_path)
    THEN [d |-> fs[index_path].d, vecs |-> fs[index_path].vecs]
    ELSE IndexFlatL2(embedding_dim)

\* self.metadata after load: the list read, or [] (except branch)
MetadataAfterLoadMerging(index_path, metadata_path) ==
    IF LoadSucceeds(index_path, metadata_path)
    THEN metadata \o fs[metadata_path].records
    ELSE <<>>
MetadataAfterLoad(index_path, metadata_path) ==
    IF LoadSucceeds(index_path, metadata_path)
    THEN fs[metadata_path].records
    ELSE <<>>

load(index_path, metadata_path) ==
    /\ index' = IndexAfterLoad(index_path, metadata_path)
    /\ metadata' = MetadataAfterLoad(index_path, metadata_path)
    /\ fresh' = FALSE
    /\ last' = [op |-> "load", index_path |-> index_path,
                metadata_path |-> metadata_path, raised |-> "none",
                ret |-> LoadSucceeds(index_path, metadata_path),
                was_fresh |-> fresh, had_entries |-> Len(metadata) > 0]
    /\ UNCHANGED <<embedding_dim, fs, saved>>
    /\ UNCHANGED <<loop, threads>>

\* the environment overwrites an artifact with bytes that do not deserialize
\* (a missing artifact is a path nothing was saved to)
Tamper(path) ==
    /\ Dirname(path) # ""
    /\ fs[path] # Corrupt
    /\ fs' = [fs EXCEPT ![path] = Corrupt]
    /\ saved' = IF saved.valid /\ path \in {saved.index_path, saved.metadata_path}
                THEN NoSave ELSE saved
    /\ last' = [op |-> "tamper"]
    /\ UNCHANGED <<embedding_dim, index, metadata, fresh>>
    /\ UNCHANGED <<loop, threads>>

----------------------------------------------------------------------------
(* Embedder.  A text is a number; the provider's vector for a text has the  *)
(* dimension of the configured model, which is the dimension the pipeline  *)
(* and its store are constructed with.                                     *)

\* what the provider does with one request: it answers with one vector per
\* input in input order, it fails (network, auth, a response without the
\* expected keys), or it answers with one vector too few or too many
Outcomes == {"ok", "error", "short", "long"}

\* the provider's vector for a text
Emb(text) == Vec(embedding_dim, <<text, 1>>)

\* [data['embedding'] for data in response['data']]
Response(batch, outcome) ==
    LET full == [j \in 1..Len(batch) |-> Emb(batch[j])] IN
    CASE outcome = "ok" -> full
      [] outcome = "short" -> SubSeq(full, 1, Len(batch) - 1)
      [] outcome = "long" -> Append(full, Emb(batch[Len(batch)]))

\* the fallback of the except branches: [0.0] * 1536
Fallback == ZeroVector(ZeroVectorDim)

\* get_embedding(text): response['data'][0]['embedding'], or the fallback
GetEmbedding(text, outcome) ==
    IF outcome = "error" \/ Response(<<text>>, outcome) = <<>>
    THEN Fallback
    ELSE Response(<<text>>, outcome)[1]

\* range(0, len(texts), batch_size): the number of chunks
NumChunks(n) == (n + batch_size - 1) \div batch_size

\* batch = texts[i:i + batch_size] of the c-th chunk, c = 1, 2, ...
Chunk(texts, c) ==
    SubSeq(texts, (c - 1) * batch_size + 1, Min(c * batch_size, Len(texts)))

\* what one pass of the loop extends embeddings with
ChunkEmbeddings(batch, outcome) ==
    IF outcome = "error"
    THEN [j \in 1..Len(batch) |-> Fallback]
    ELSE Response(batch, outcome)

\* get_embeddings(texts), the c-th request having the outcome outcomes[c]
GetEmbeddings(texts, outcomes) ==
    LET RECURSIVE Loop(_)
        Loop(c) ==
            IF c = 0 THEN <<>>
            ELSE Loop(c - 1) \o ChunkEmbeddings(Chunk(texts, c), outcomes[c])
    IN Loop(NumChunks(Len(texts)))

get_embedding(text, outcome) ==
    /\ last' = [op |-> "get_embedding", text |-> text, outcome |-> outcome,
                raised |-> "none", ret |-> GetEmbedding(text, outcome)]
    /\ UNCHANGED <<embedding_dim, index, metadata, fs, saved, fresh>>
    /\ UNCHANGED <<loop, threads>>

get_embeddings(texts, outcomes) ==
    /\ last' = [op |-> "get_embeddings", texts |-> texts, outcomes |-> outcomes,
                raised |-> "none", ret |-> GetEmbeddings(texts, outcomes)]
    /\ UNCHANGED <<embedding_dim, index, metadata, fs, saved, fresh>>
    /\ UNCHANGED <<loop, threads>>

\* The loop of get_embeddings request by request.  The frame holds the
\* texts, the number c of chunks done, the number of requests sent and not
\* yet answered, the batches sent so far, and the embeddings so far.

\* get_embeddings(texts) is entered: embeddings = []
begin_get_embeddings(texts) ==
    /\ loop = Idle
    /\ loop' = [pc |-> "for", texts |-> texts, c |-> 0, in_flight |-> 0,
                requests |-> <<>>, outcomes |-> <<>>, embeddings |-> <<>>]
    /\ last' = [op |-> "get_embeddings", running |-> TRUE]
    /\ UNCHANGED <<embedding_dim, index, metadata, fs, saved, fresh, threads>>

\* the chunk the loop goes on with after a request with this outcome: the
\* next one, whether the request succeeded or raised
ChunksDoneAfterRetry(c, outcome) == IF outcome = "error" THEN c ELSE c + 1
ChunksDoneAfter(c, outcome) == c + 1

\* openai.Embedding.create(input=batch, ...) is called; the call blocks
send_request ==
    /\ loop.pc = "for"
    /\ loop.in_flight = 0
    /\ loop.c < NumChunks(Len(loop.texts))
    /\ Len(loop.requests) < MaxRequests
    /\ loop' = [loop EXCEPT !.in_flight = @ + 1,
                            !.requests = Append(@, Chunk(loop.texts, loop.c + 1))]
    /\ UNCHANGED <<embedding_dim, index, metadata, fs, saved, fresh, last, threads>>

\* the call returns or raises; embeddings.extend(...) in the try or the
\* except branch, and the loop goes on
receive_response(outcome) ==
    /\ loop.pc = "for"
    /\ loop.in_flight = 1
    /\ loop' = [loop EXCEPT
          !.in_flight = @ - 1,
          !.outcomes = Append(@, outcome),
          !.embeddings = @ \o ChunkEmbeddings(Chunk(loop.texts, loop.c + 1), outcome),
          !.c = ChunksDoneAfter(@, outcome)]
    /\ UNCHANGED <<embedding_dim, index, metadata, fs, saved, fresh, last, threads>>

\* return embeddings
end_get_embeddings ==
    /\ loop.pc = "for"
    /\ loop.in_flight = 0
    /\ loop.c >= NumChunks(Len(loop.texts))
    /\ last' = [op |-> "get_embeddings", running |-> FALSE, texts |-> loop.texts,
                outcomes |-> loop.outcomes, requests |-> loop.requests,
                raised |-> "none", ret |-> loop.embeddings]
    /\ loop' = Idle
    /\ UNCHANGED <<embedding_dim, index, metadata, fs, saved, fresh, threads>>

----------------------------------------------------------------------------
(* Profile builder.  A field value is a record [kind, text, len]: a str of   *)
(* len characters, the float nan that pandas puts in a blank cell, or None.  *)
(* A profile text is the sequence of its lines (the parts joined by "\n");   *)
(* a line "Label: value" is a record [label, value].                         *)

Str(t, n) == [kind |-> "str", text |-> t, len |-> n]
NaN == [kind |-> "float", text |-> "nan", len |-> 0]
None == [kind |-> "NoneType", text |-> "None", len |-> 0]
Empty == Str("", 0)
Unknown == Str("Unknown", 7)

\* bool(value): '' and None are false, a non-empty str and nan are true
Truthy(v) == IF v.kind = "str" THEN v.len > 0 ELSE v.kind = "float"

\* f"{value}": str(nan) is 'nan', str(None) is 'None'
Format(v) ==
    CASE v.kind = "str" -> v
      [] v.kind = "float" -> Str("nan", 3)
      [] v.kind = "NoneType" -> Str("None", 4)

\* dog_data.get(key, default)
Get(dog_data, key, default) ==
    IF key \in DOMAIN dog_data THEN dog_data[key] ELSE default

\* f"{label}: {value}"
Line(label, v) == [label |-> label, value |-> Format(v)]

\* the fields appended unconditionally, with default 'Unknown'
AlwaysFields ==
    << [key |-> "name", label |-> "Name"], [key |-> "breed", label |-> "Breed"],
       [key |-> "sex", label |-> "Sex"], [key |-> "age", label |-> "Age"],
       [key |-> "weight", label |-> "Weight"] >>

\* the fields appended only `if value:`, with default ''
OptionalFields ==
    << [key |-> "description", label |-> "Description"],
       [key |-> "temperament", label |-> "Temperament"],
       [key |-> "special_needs", label |-> "Special Needs"],
       [key |-> "training", label |-> "Training"] >>

\* _create_dog_profile_text(dog_data)
ProfileTextOptionalFirst(dog_data) ==
    LET head == [i \in 1..Len(AlwaysFields) |->
                   Line(AlwaysFields[i].label,
                        Get(dog_data, AlwaysFields[i].key, Unknown))]
        RECURSIVE Rest(_)
        Rest(i) ==
            IF i = 0 THEN <<>>
            ELSE LET v == Get(dog_data, OptionalFields[i].key, Empty) IN
                 IF Truthy(v) THEN Append(Rest(i - 1), Line(OptionalFields[i].label, v))
                 ELSE Rest(i - 1)
    IN Rest(Len(OptionalFields)) \o head
ProfileText(dog_data) ==
    LET head == [i \in 1..Len(AlwaysFields) |->
                   Line(AlwaysFields[i].label,
                        Get(dog_data, AlwaysFields[i].key, Unknown))]
        RECURSIVE Rest(_)
        Rest(i) ==
            IF i = 0 THEN <<>>
            ELSE LET v == Get(dog_data, OptionalFields[i].key, Empty) IN
                 IF Truthy(v) THEN Append(Rest(i - 1), Line(OptionalFields[i].label, v))
                 ELSE Rest(i - 1)
    IN head \o Rest(Len(OptionalFields))

\* a call of _create_dog_profile_text on the mapping the state holds as input
create_dog_profile_text ==
    /\ last.op \in {"input", "_create_dog_profile_text"}
    /\ last.calls < 2
    /\ last' = [op |-> "_create_dog_profile_text", dog_data |-> last.dog_data,
                calls |-> last.calls + 1, raised |-> "none",
                ret |-> ProfileText(last.dog_data)]
    /\ UNCHANGED <<embedding_dim, index, metadata, fs, saved, fresh>>
    /\ UNCHANGED <<loop, threads>>

----------------------------------------------------------------------------
(* EmbeddingPipeline.  The input file is unreadable or a table of rows; a   *)
(* row is a mapping from the columns of the table to field values.          *)

SnippetLen == 200       \* description[:200]

Unreadable == [readable |-> FALSE, rows |-> <<>>]
Csv(rows) == [readable |-> TRUE, rows |-> rows]

\* a row of a table with the columns dog_id, name, breed, description
Row(id, name, breed, description) ==
    [dog_id |-> id, name |-> name, breed |-> breed, description |-> description]

Rex == Row(Str("1", 1), Str("Rex", 3), Str("Beagle", 6), Str("Friendly", 8))
Bella == Row(Str("2", 1), Str("Bella", 5), Str("Poodle", 6), Str("Calm", 4))
\* a row whose description cell is blank
Stray == Row(Str("3", 1), Str("Stray", 5), Str("Mix", 3), NaN)

\* the text as the provider sees it (Emb): the number of characters of its values
TextId(profile) ==
    LET RECURSIVE Sum(_)
        Sum(i) == IF i = 0 THEN 0 ELSE profile[i].value.len + Sum(i - 1)
    IN Sum(Len(profile))

\* embed_dogs_dataframe: the profile of every row
Profiles(df) == [i \in 1..Len(df) |-> ProfileText(df[i])]

\* embed_dogs_dataframe(df): profiles, their embeddings, and the assignment
\* result_df['embedding'] = embeddings, which pandas rejects with ValueError
\* when the list is not as long as the table
EmbedDogsDataframe(df, outcomes) ==
    LET profiles == Profiles(df)
        embeddings == GetEmbeddings([i \in 1..Len(df) |-> TextId(profiles[i])], outcomes)
    IN [raised |-> IF Len(embeddings) # Len(df) THEN "ValueError" ELSE "none",
        profiles |-> profiles, embeddings |-> embeddings]

\* description[:200] + "..." if len(description) > 200 else description
DescriptionSnippet(description) ==
    IF description.len > SnippetLen
    THEN [kind |-> "str", text |-> description.text, len |-> SnippetLen + 3,
          cut |-> SnippetLen]
    ELSE description

\* len(description) raises TypeError on a truthy value that is no str (nan)
ExtractRaises(row) ==
    LET description == Get(row, "description", Empty) IN
    Truthy(description) /\ description.kind # "str"

\* the metadata dict of one row of _extract_metadata
ExtractRow(row, profile) ==
    LET description == Get(row, "description", Empty)
        meta == [dog_id |-> Get(row, "dog_id", Empty),
                 name |-> Get(row, "name", Unknown),
                 breed |-> Get(row, "breed", Unknown),
                 sex |-> Get(row, "sex", Unknown),
                 age |-> Get(row, "age", Unknown),
                 weight |-> Get(row, "weight", Unknown),
                 data_source |-> Get(row, "data_source", Unknown),
                 source_id |-> Get(row, "source_id", Empty),
                 profile_text |-> profile]
    IN IF Truthy(description)
       THEN ("description_snippet" :> DescriptionSnippet(description)) @@ meta
       ELSE meta

\* _extract_metadata(df_with_embeddings)
ExtractMetadata(df, profiles) ==
    [i \in 1..Len(df) |-> ExtractRow(df[i], profiles[i])]

\* a call of _extract_metadata on the table the state holds as input
extract_metadata ==
    /\ last.op = "table"
    /\ last' = IF \E i \in 1..Len(last.df) : ExtractRaises(last.df[i])
               THEN [op |-> "_extract_metadata", df |-> last.df, raised |-> "TypeError"]
               ELSE [op |-> "_extract_metadata", df |-> last.df, raised |-> "none",
                     ret |-> ExtractMetadata(last.df, Profiles(last.df))]
    /\ UNCHANGED <<embedding_dim, index, metadata, fs, saved, fresh>>
    /\ UNCHANGED <<loop, threads>>

\* how far process_dog_data gets: "unreadable" (read_csv raised, caught), an
\* exception that leaves it, or "saved"
IngestOutcomeReadUnchecked(input, outcomes) ==
    LET e == EmbedDogsDataframe(input.rows, outcomes) IN
    IF e.raised # "none" THEN e.raised
    ELSE IF \E i \in 1..Len(input.rows) : ExtractRaises(input.rows[i]) THEN "TypeError"
    ELSE LET out == AddOutcome(e.embeddings, ExtractMetadata(input.rows, e.profiles)) IN
         IF out \in {"added", "noop"} THEN "saved" ELSE out
IngestOutcome(input, outcomes) ==
    LET e == EmbedDogsDataframe(input.rows, outcomes) IN
    IF ~input.readable THEN "unreadable"
    ELSE IF e.raised # "none" THEN e.raised
    ELSE IF \E i \in 1..Len(input.rows) : ExtractRaises(input.rows[i]) THEN "TypeError"
    ELSE LET out == AddOutcome(e.embeddings, ExtractMetadata(input.rows, e.profiles)) IN
         IF out \in {"added", "noop"} THEN "saved" ELSE out

\* what the two shutil.copy2 calls of one try block do: both succeed, the
\* first raises, or the second raises after the first has copied the index
CopyOutcomes == {"ok", "index_fails", "metadata_fails"}

\* the copies are reached only by an ingest that has saved
CopiesReached(input, outcomes) ==
    IF IngestOutcome(input, outcomes) = "saved" THEN CopyOutcomes ELSE {"ok"}

\* the files after save(index_path, metadata_path) of the store (ix, md) and
\* the copies to the two 'latest' paths
FsAfterIngest(ix, md, t, copy) ==
    LET written == [fs EXCEPT ![IndexPathAt(t)] = IndexFile(ix),
                              ![MetadataPathAt(t)] = MetaFile(md)]
    IN [written EXCEPT
          ![latest_index_path] =
              IF copy \in {"ok", "metadata_fails"} THEN written[IndexPathAt(t)] ELSE @,
          ![latest_metadata_path] =
              IF copy = "ok" THEN written[MetadataPathAt(t)] ELSE @]

\* the timestamp of an ingest: every ingest that saves runs in a later
\* second than the ones whose artifacts are there
Now == 1 + Cardinality({t \in Timestamps : Exists(IndexPathAt(t))})

process_dog_data(input, outcomes, copy) ==
    LET io == IngestOutcome(input, outcomes)
        e == EmbedDogsDataframe(input.rows, outcomes)
        metadata_list == ExtractMetadata(input.rows, e.profiles)
        out == IF io = "saved" THEN AddOutcome(e.embeddings, metadata_list) ELSE io
        ix == IndexAfterAdd(out, e.embeddings)
        md == MetadataAfterAdd(out, metadata_list)
        t == Now
        call == [op |-> "process_dog_data", input |-> input,
                 outcomes |-> outcomes, copy |-> copy,
                 size_before |-> Len(metadata), ntotal_before |-> NTotal]
    IN
    /\ out = "added" => Len(metadata) + Len(input.rows) <= MaxSize
    /\ io = "saved" => t <= MaxIngests
    /\ copy \in CopiesReached(input, outcomes)
    /\ index' = ix
    /\ metadata' = md
    /\ fs' = IF io = "saved" THEN FsAfterIngest(ix, md, t, copy) ELSE fs
    /\ saved' = IF io = "saved"
                THEN [valid |-> TRUE, index_path |-> IndexPathAt(t),
                      metadata_path |-> MetadataPathAt(t),
                      embedding_dim |-> embedding_dim, index |-> ix, metadata |-> md,
                      copied |-> copy]
                ELSE saved
    /\ fresh' = FALSE
    /\ last' = CASE io = "saved" ->
                      [raised |-> "none",
                       ret |-> <<IndexPathAt(t), MetadataPathAt(t)>>] @@ call
                 [] io = "unreadable" ->
                      [raised |-> "none", ret |-> <<NoPath, NoPath>>] @@ call
                 [] OTHER -> [raised |-> io] @@ call
    /\ UNCHANGED embedding_dim
    /\ UNCHANGED <<loop, threads>>

\* os.path.exists(latest_index_path) and os.path.exists(latest_metadata_path)
LatestPresentUnchecked == TRUE
LatestPresent == Exists(latest_index_path) /\ Exists(latest_metadata_path)

load_latest_vector_store ==
    /\ index' = IF LatestPresent
                THEN IndexAfterLoad(latest_index_path, latest_metadata_path)
                ELSE index
    /\ metadata' = IF LatestPresent
                   THEN MetadataAfterLoad(latest_index_path, latest_metadata_path)
                   ELSE metadata
    /\ fresh' = FALSE
    /\ last' = [op |-> "load_latest_vector_store", raised |-> "none",
                ret |-> LatestPresent
                        /\ LoadSucceeds(latest_index_path, latest_metadata_path),
                had_entries |-> Len(metadata) > 0]
    /\ UNCHANGED <<embedding_dim, fs, saved>>
    /\ UNCHANGED <<loop, threads>>

\* search_similar_dogs(query_text, top_k): search_by_text embeds the query
\* with get_embedding and hands the vector to search
search_similar_dogs(query_text, outcome, top_k) ==
    /\ \E r \in SearchOutcomes(GetEmbedding(query_text, outcome), top_k) :
          /\ last' = [op |-> "search_similar_dogs", query_text |-> query_text,
                      outcome |-> outcome] @@ r
          /\ metadata' = MetadataAfterSearch(r)
    /\ UNCHANGED <<embedding_dim, index, fs, saved, fresh>>
    /\ UNCHANGED <<loop, threads>>

----------------------------------------------------------------------------
(* VectorStore.search_by_text: the query text is embedded, then searched *)

search_by_text(query_text, outcome, top_k) ==
    /\ \E r \in SearchOutcomes(GetEmbedding(query_text, outcome), top_k) :
          /\ last' = [op |-> "search_by_text", query_text |-> query_text,
                      outcome |-> outcome] @@ r
          /\ metadata' = MetadataAfterSearch(r)
    /\ UNCHANGED <<embedding_dim, index, fs, saved, fresh>>
    /\ UNCHANGED <<loop, threads>>

----------------------------------------------------------------------------
(* Specification of the in-memory store: construction, add, clear, search *)

\* argument lists of add_embeddings
Lists(S) == UNION {[1..k -> S] : k \in BatchLens}

MemVecs == VecsOfDim(DefaultDim) \cup {ZeroVector(2 * DefaultDim)}

NextMem ==
    \/ \E d \in Dims : Construct(d)
    \/ \E embeddings \in Lists(MemVecs),
          metadata_list \in Lists(MetaPool) :
            add_embeddings(embeddings, metadata_list)
    \/ clear
    \/ get_size
    \/ \E q \in MemVecs, top_k \in TopKs : search(q, top_k)

SpecMem == Init /\ [][NextMem]_vars

----------------------------------------------------------------------------
(* Specification of the persisted store: construction, add, clear, save,   *)
(* load, and the environment removing or corrupting artifacts              *)

\* the batches added: one pair, and two different pairs
DiskBatches ==
    { <<embeddings, metadata_list>> \in
        { << <<Vec(DefaultDim, <<1, 0>>)>>, <<MetaRecord(1)>> >>,
          << <<Vec(DefaultDim, <<1, 0>>), Vec(DefaultDim, <<0, 1>>)>>, <<MetaRecord(1), MetaRecord(2)>> >> } :
        TRUE }

NextDisk ==
    \/ \E d \in Dims : Construct(d)
    \/ \E b \in DiskBatches : add_embeddings(b[1], b[2])
    \/ clear
    \/ \E p, m \in Paths : save(p, m)
    \/ \E p, m \in Paths : load(p, m)
    \/ \E p \in Paths : Tamper(p)

SpecDisk == Init /\ [][NextDisk]_vars

----------------------------------------------------------------------------
(* Specification of a store in use: entries are added, the store is saved   *)
(* (also with the process stopped between the two writes), loaded, queried  *)
(* by vector and by text, and asked for its size                            *)

\* the path pairs of save and load
SavePairs ==
    { <<Path("store", "a"), Path("store", "b")>>,
      <<Path("", "c"), Path("store", "b")>> }

\* the query vectors
Queries == {Vec(DefaultDim, <<1, 0>>), Vec(DefaultDim, <<0, 1>>)}

NextSave ==
    \/ \E b \in DiskBatches : add_embeddings(b[1], b[2])
    \/ clear
    \/ get_size
    \/ \E pm \in SavePairs : save(pm[1], pm[2])
    \/ \E pm \in SavePairs : save_interrupted(pm[1], pm[2])
    \/ \E pm \in SavePairs : load(pm[1], pm[2])
    \/ \E q \in Queries, top_k \in TopKs : search(q, top_k)
    \/ \E outcome \in {"ok", "error"}, top_k \in TopKs :
          search_by_text(1, outcome, top_k)

SpecSave == Init /\ [][NextSave]_vars

----------------------------------------------------------------------------
(* Specification of a store shared by two threads that add entries without *)
(* a lock while the store is queried and asked for its size                 *)

\* the pairs the threads add: each vector with its own record
ConcBatches ==
    { <<embeddings, metadata_list>> \in
        { << <<Vec(DefaultDim, <<1, 0>>)>>, <<MetaRecord(1)>> >>,
          << <<Vec(DefaultDim, <<0, 1>>)>>, <<MetaRecord(2)>> >> } :
        TRUE }

NextConc ==
    \/ \E t \in Threads, b \in ConcBatches : begin_add(t, b[1], b[2])
    \/ \E t \in Threads : add_index(t)
    \/ \E t \in Threads : add_metadata(t)
    \/ get_size
    \/ \E q \in Queries, top_k \in TopKs : search(q, top_k)

SpecConc == Init /\ [][NextConc]_vars

----------------------------------------------------------------------------
(* Specification of the embedder: a pipeline of either dimension embeds    *)
(* single texts and lists of texts                                         *)

\* the list of the first n texts
Texts(n) == [i \in 1..n |-> i]

NextEmbed ==
    \/ \E d \in Dims : Construct(d)
    \/ \E text \in 1..2, outcome \in Outcomes : get_embedding(text, outcome)
    \/ \E n \in 0..MaxTexts :
         \E outcomes \in [1..NumChunks(n) -> Outcomes] :
            get_embeddings(Texts(n), outcomes)

SpecEmbed == Init /\ [][NextEmbed]_vars

----------------------------------------------------------------------------
(* Specification of the requests of get_embeddings: calls on lists of 0 to  *)
(* MaxTexts texts, the provider answering or failing request by request     *)

NextRequests ==
    \/ \E n \in 0..MaxTexts : begin_get_embeddings(Texts(n))
    \/ send_request
    \/ \E outcome \in Outcomes : receive_response(outcome)
    \/ end_get_embeddings

SpecRequests == Init /\ [][NextRequests]_vars

----------------------------------------------------------------------------
(* Specification of the profile builder: the mapping is drawn at the start, *)
(* and the builder is called on it twice                                    *)

\* a value that stands for "the key is not in the mapping"
Missing == [kind |-> "missing", text |-> "", len |-> 0]

\* what each field of the mapping may hold
FieldOptions ==
    [name |-> {Missing, Empty, NaN, None, Str("Rex", 3)},
     breed |-> {Missing, NaN, Str("Beagle", 6)},
     sex |-> {Missing, Str("Male", 4)},
     age |-> {Missing, Str("2 years", 7)},
     weight |-> {Missing, Str("30 lbs", 6)},
     description |-> {Missing, Empty, NaN, None, Str("Friendly", 8)},
     temperament |-> {Missing, Empty, Str("Calm", 4)},
     special_needs |-> {Missing, Empty, Str("Diet", 4)},
     training |-> {Missing, Empty, Str("Sit", 3)}]

\* the mapping with the keys whose choice is not Missing
DogData(choice) ==
    [k \in {f \in DOMAIN choice : choice[f] # Missing} |-> choice[k]]

ProfileInputs ==
    {DogData([name |-> n, breed |-> b, sex |-> s, age |-> a, weight |-> w,
              description |-> d, temperament |-> t, special_needs |-> sn,
              training |-> tr]) :
        n \in FieldOptions.name, b \in FieldOptions.breed, s \in FieldOptions.sex,
        a \in FieldOptions.age, w \in FieldOptions.weight,
        d \in FieldOptions.description, t \in FieldOptions.temperament,
        sn \in FieldOptions.special_needs, tr \in FieldOptions.training}

InitProfile ==
    /\ embedding_dim = DefaultDim
    /\ index = IndexFlatL2(embedding_dim)
    /\ metadata = <<>>
    /\ fs = [p \in AllPaths |-> Absent]
    /\ saved = NoSave
    /\ fresh = TRUE
    /\ loop = Idle
    /\ threads = [t \in Threads |-> Idle]
    /\ last \in {[op |-> "input", dog_data |-> d, calls |-> 0] : d \in ProfileInputs}

NextProfile == create_dog_profile_text

SpecProfile == InitProfile /\ [][NextProfile]_vars

----------------------------------------------------------------------------
(* Specification of the metadata extraction: a one-row table is drawn at    *)
(* the start, and _extract_metadata is called on it                         *)

\* what each column of the row may hold; Missing: the table has no such column
ExtractOptions ==
    [dog_id |-> {Missing, Str("7", 1)},
     name |-> {Missing, NaN, Str("Rex", 3)},
     breed |-> {Missing, Str("Beagle", 6)},
     data_source |-> {Missing, Str("sample", 6)},
     description |-> {Missing, Empty, NaN, None, Str("Friendly", 8),
                      Str("Long", SnippetLen), Str("Long", SnippetLen + 1),
                      Str("Long", SnippetLen + 50)}]

ExtractInputs ==
    {<<DogData([dog_id |-> i, name |-> n, breed |-> b, data_source |-> ds,
                description |-> d])>> :
        i \in ExtractOptions.dog_id, n \in ExtractOptions.name,
        b \in ExtractOptions.breed, ds \in ExtractOptions.data_source,
        d \in ExtractOptions.description}

InitExtract ==
    /\ embedding_dim = DefaultDim
    /\ index = IndexFlatL2(embedding_dim)
    /\ metadata = <<>>
    /\ fs = [p \in AllPaths |-> Absent]
    /\ saved = NoSave
    /\ fresh = TRUE
    /\ loop = Idle
    /\ threads = [t \in Threads |-> Idle]
    /\ last \in {[op |-> "table", df |-> df] : df \in ExtractInputs}

NextExtract == extract_metadata

SpecExtract == InitExtract /\ [][NextExtract]_vars

----------------------------------------------------------------------------
(* Specification of the pipeline: a pipeline of either dimension ingests    *)
(* files, loads the latest artifacts and answers queries                    *)

\* the input files: one that cannot be read, a table without rows, tables
\* of one and two rows, and a table with a blank description cell
Inputs ==
    {Unreadable, Csv(<<>>), Csv(<<Rex>>), Csv(<<Rex, Bella>>), Csv(<<Stray>>)}

\* what the provider does with the requests of an ingest
IngestOutcomes == {"ok", "error", "short"}

NextPipe ==
    \/ \E input \in Inputs :
          \E outcomes \in [1..NumChunks(Len(input.rows)) -> IngestOutcomes] :
              \E copy \in CopiesReached(input, outcomes) :
                  process_dog_data(input, outcomes, copy)
    \/ load_latest_vector_store
    \/ \E query_text \in {1}, outcome \in {"ok", "error"}, top_k \in {2} :
          search_similar_dogs(query_text, outcome, top_k)

SpecPipe == Init /\ [][NextPipe]_vars

----------------------------------------------------------------------------
(* Properties of the in-memory store *)

AddCalled == last.op = "add_embeddings"
AddRejected == AddCalled /\ last.raised # "none"
SearchReturned == last.op = "search" /\ last.raised = "none"

\* the stored vector behind the i-th result of the last search
HitVec(i) == index.vecs[last.hits[i] + 1]
\* the squared distance of the i-th result of the last search to its query
HitSqr(i) == L2Sqr(last.query, HitVec(i))
Score(i) == last.ret[i]["similarity_score"]

\* C1: after any sequence of add_embeddings calls (accepted, rejected, empty)
\* and clear calls, the index holds as many vectors as there are metadata
\* records, and get_size() returns that number.
C1_ParallelArrays ==
    /\ NTotal = Len(metadata)
    /\ last.op = "get_size" => last.ret = NTotal

\* a rejected add on a store that already holds entries
C1_Witness ==
    /\ AddRejected
    /\ last.raised = "AssertionError"
    /\ NTotal = MaxSize

\* C11: search on a store that holds no entries (freshly constructed, or
\* cleared) returns an empty list and raises nothing, whatever the query
\* vector (of the store's dimension or not) and whatever top_k.
C11_EmptyStoreSearch ==
    (last.op = "search" /\ Len(metadata) = 0) =>
        /\ last.raised = "none"
        /\ last.ret = <<>>

\* a search with a query of another dimension and top_k = 0 on a store that
\* is no longer as constructed and holds nothing
C11_Witness ==
    /\ SearchReturned
    /\ ~fresh
    /\ Len(metadata) = 0
    /\ last.query.dim # index.d
    /\ last.top_k = 0
    /\ last.ret = <<>>

\* a search on a store as constructed, with a positive top_k
C11_WitnessFresh ==
    /\ SearchReturned
    /\ fresh
    /\ last.top_k > 0
    /\ last.ret = <<>>

\* some vector of the batch has a length other than the index's dimension
BadDimension(embeddings, d) == \E i \in 1..Len(embeddings) : embeddings[i].dim # d

\* C2: add_embeddings with equal-length lists in which some vector's length
\* differs from the store's dimension raises, and leaves the stored vectors
\* and the metadata list as they were.
C2_DimensionMismatchAtomic ==
    [][(/\ last'.op = "add_embeddings"
        /\ Len(last'.embeddings) = Len(last'.metadata_list)
        /\ BadDimension(last'.embeddings, index.d))
       => (/\ last'.raised \in {"ValueError", "AssertionError"}
           /\ index' = index
           /\ metadata' = metadata)]_vars

\* a batch of two vectors of one length, which is not the store's, rejected
\* by a store that holds entries
C2_Witness ==
    /\ AddCalled
    /\ Len(last.embeddings) = 2
    /\ Len(last.metadata_list) = 2
    /\ ~Ragged(last.embeddings)
    /\ BadDimension(last.embeddings, index.d)
    /\ last.raised = "AssertionError"
    /\ NTotal > 0

\* C3: add_embeddings with len(embeddings) != len(metadata_list) raises
\* ValueError and changes neither the stored vectors nor the metadata list.
C3_LengthMismatchRejected ==
    [][(/\ last'.op = "add_embeddings"
        /\ Len(last'.embeddings) # Len(last'.metadata_list))
       => (/\ last'.raised = "ValueError"
           /\ index' = index
           /\ metadata' = metadata)]_vars

\* two well-formed vectors with one metadata record, on a store with entries
C3_Witness ==
    /\ AddCalled
    /\ Len(last.embeddings) = 2
    /\ Len(last.metadata_list) = 1
    /\ ~BadDimension(last.embeddings, index.d)
    /\ last.raised = "ValueError"
    /\ NTotal > 0

\* a >= b for fractions with positive denominators
ScoreGeq(a, b) == a.num * b.den >= b.num * a.den
ScoreGt(a, b) == a.num * b.den > b.num * a.den

\* C9: a search that returns gives at most min(top_k, get_size()) results,
\* ordered by non-decreasing distance to the query, which is the same as
\* non-increasing similarity_score.
C9_TopKOrdered ==
    SearchReturned =>
        /\ Len(last.ret) <= Min(last.top_k, Len(metadata))
        /\ \A i, j \in 1..Len(last.ret) :
              i < j => /\ HitSqr(i) <= HitSqr(j)
                       /\ ScoreGeq(Score(i), Score(j))

\* a search cut by top_k that returns the nearer of two stored vectors, the
\* farther one being stored first
C9_Witness ==
    /\ SearchReturned
    /\ Len(metadata) = 2
    /\ last.top_k = 1
    /\ Len(last.ret) = 1
    /\ last.hits[1] = 1
    /\ L2Sqr(last.query, index.vecs[1]) > HitSqr(1)

\* a search not cut by top_k that returns both stored vectors, nearest first
C9_WitnessOrder ==
    /\ SearchReturned
    /\ last.top_k > Len(metadata)
    /\ Len(last.ret) = 2
    /\ last.hits = <<1, 0>>
    /\ HitSqr(1) < HitSqr(2)

\* C10 as claimed: the score is 1 / (1 + d) with d the Euclidean distance,
\* that is (1/score - 1)^2 equals the squared distance.
C10_ScoreOfEuclideanDistance ==
    SearchReturned =>
        \A i \in 1..Len(last.ret) :
            (Score(i).den - Score(i).num) * (Score(i).den - Score(i).num)
                = HitSqr(i) * Score(i).num * Score(i).num

\* C10 as amended: the score is 1 / (1 + s) with s the SQUARED Euclidean
\* distance between the query and the matched stored vector; a stored vector
\* equal to the query scores 1, a larger distance gives a strictly smaller
\* score, and every score lies in (0, 1].
C10_ScoreOfSquaredDistance ==
    SearchReturned =>
        /\ \A i \in 1..Len(last.ret) :
              /\ Score(i).num * (1 + HitSqr(i)) = Score(i).den
              /\ HitVec(i) = last.query => Score(i).num = Score(i).den
              /\ Score(i).num > 0 /\ Score(i).den > 0
              /\ Score(i).num <= Score(i).den
        /\ \A i, j \in 1..Len(last.ret) :
              HitSqr(i) < HitSqr(j) => ScoreGt(Score(i), Score(j))

\* a search whose results include the query itself and a vector at squared
\* distance 2
C10_Witness ==
    /\ SearchReturned
    /\ Len(last.ret) = 2
    /\ HitVec(1) = last.query
    /\ HitSqr(2) = 2

\* s is an initial segment of t
IsPrefix(s, t) ==
    /\ Len(s) <= Len(t)
    /\ \A i \in 1..Len(s) : t[i] = s[i]

\* C27: add_embeddings appends in lockstep: after a successful call with n
\* pairs on a store of size S the entries 0..S-1 are unchanged and position
\* S+i holds embeddings[i] and metadata_list[i]; no operation other than
\* clear and load (and the construction of a new store) removes or rewrites
\* an entry.
C27_LockstepAppend ==
    [][/\ last'.op \notin {"clear", "load", "construct"} =>
            /\ IsPrefix(index.vecs, index'.vecs)
            /\ IsPrefix(metadata, metadata')
       /\ (last'.op = "add_embeddings" /\ last'.raised = "none") =>
            /\ Len(index'.vecs) = NTotal + Len(last'.embeddings)
            /\ Len(metadata') = Len(metadata) + Len(last'.metadata_list)
            /\ \A i \in 1..Len(last'.embeddings) :
                  /\ index'.vecs[NTotal + i] = last'.embeddings[i]
                  /\ metadata'[Len(metadata) + i] = last'.metadata_list[i]]_vars

\* a successful add of one pair to a store of one different pair
C27_Witness ==
    /\ AddCalled
    /\ last.raised = "none"
    /\ Len(last.embeddings) = 1
    /\ NTotal = 2
    /\ index.vecs[2] = last.embeddings[1]
    /\ index.vecs[1] # index.vecs[2]
    /\ metadata[2] = last.metadata_list[1]
    /\ metadata[1] # metadata[2]

----------------------------------------------------------------------------
(* Properties of the persisted store *)

LoadCalled == last.op = "load"

\* C12: clear() leaves the store with zero vectors and zero metadata records,
\* with an index of the dimension given at construction, and it creates,
\* modifies and deletes no file.
C12_ClearFrame ==
    [][last'.op = "clear" =>
          /\ index' = IndexFlatL2(embedding_dim)
          /\ NTotal' = 0
          /\ metadata' = <<>>
          /\ embedding_dim' = embedding_dim
          /\ fs' = fs]_vars

\* clear on a store of the larger dimension that held entries loaded from
\* artifacts of the default dimension, the artifacts still being there
C12_Witness ==
    /\ last.op = "clear"
    /\ last.had_entries
    /\ embedding_dim # DefaultDim
    /\ index = IndexFlatL2(embedding_dim)
    /\ metadata = <<>>
    /\ \E p, m \in Paths : ReadsAsIndex(p) /\ ReadsAsMetadata(m) /\ fs[p].vecs # <<>>

\* C7: load on a missing or corrupt index artifact or metadata artifact
\* returns False without raising and leaves the store empty, with the
\* dimension given at construction, whatever the store held and whatever
\* the index artifact holds.
C7_FailedLoadResets ==
    (/\ LoadCalled
     /\ \/ fs[last.index_path].kind # "index"
        \/ fs[last.metadata_path].kind # "meta")
    => /\ last.ret = FALSE
       /\ last.raised = "none"
       /\ index = [d |-> embedding_dim, vecs |-> <<>>]
       /\ metadata = <<>>

\* a load on a store that held entries, whose index artifact reads, holds
\* vectors and has another dimension than the store, and whose metadata
\* artifact is corrupt
C7_Witness ==
    /\ LoadCalled
    /\ last.had_entries
    /\ fs[last.index_path].kind = "index"
    /\ fs[last.index_path].vecs # <<>>
    /\ fs[last.index_path].d # embedding_dim
    /\ fs[last.metadata_path].kind = "corrupt"
    /\ last.ret = FALSE

\* the last call was load(p, m) on a freshly constructed store of the
\* dimension of the store that save(p, m) was last called on
LoadAfterSave ==
    /\ LoadCalled
    /\ last.was_fresh
    /\ saved.valid
    /\ last.index_path = saved.index_path
    /\ last.metadata_path = saved.metadata_path
    /\ embedding_dim = saved.embedding_dim

RoundTripOk ==
    /\ last.ret = TRUE
    /\ index.vecs = saved.index.vecs
    /\ metadata = saved.metadata

\* C8: save(p, m) to two separate artifacts followed by load(p, m) on a
\* freshly constructed store of the same dimension returns True and yields
\* the same vectors and the same metadata records in the same order.
C8_RoundTrip ==
    (LoadAfterSave /\ saved.index_path # saved.metadata_path) => RoundTripOk

\* the round trip of a pair of paths that each have a directory part
C8_RoundTripOfWrittenPair ==
    (/\ LoadAfterSave
     /\ saved.index_path # saved.metadata_path
     /\ Dirname(saved.index_path) # ""
     /\ Dirname(saved.metadata_path) # "")
    => RoundTripOk

\* a round trip of a store holding two different entries
C8_WitnessWrittenPair ==
    /\ LoadAfterSave
    /\ last.ret = TRUE
    /\ Len(metadata) = 2
    /\ metadata[1] # metadata[2]
    /\ index.vecs[1] # index.vecs[2]

\* C23: a load that returns True replaces the in-memory state: afterwards the
\* index is the persisted index and the metadata list is the persisted list,
\* with none of the entries held before.
C23_LoadReplaces ==
    [][(last'.op = "load" /\ last'.ret = TRUE) =>
          /\ index' = [d |-> fs[last'.index_path].d,
                       vecs |-> fs[last'.index_path].vecs]
          /\ metadata' = fs[last'.metadata_path].records]_vars

\* a load of artifacts of one entry into a store that held entries
C23_Witness ==
    /\ LoadCalled
    /\ last.ret = TRUE
    /\ last.had_entries
    /\ Len(fs[last.metadata_path].records) = 1
    /\ Len(metadata) = 1
    /\ NTotal = 1

\* the same for the pipeline: after load_latest_vector_store has returned True
\* the store holds what the 'latest' pair holds
C23_LoadLatestReplaces ==
    (last.op = "load_latest_vector_store" /\ last.ret = TRUE) =>
        /\ index.vecs = fs[latest_index_path].vecs
        /\ metadata = fs[latest_metadata_path].records

\* an ingest of one record on an empty pipeline, then the load: one entry
C23_WitnessLoadLatest ==
    /\ last.op = "load_latest_vector_store" /\ last.ret = TRUE
    /\ last.had_entries
    /\ saved.valid /\ saved.index_path = IndexPathAt(1)
    /\ Len(saved.metadata) = 1
    /\ Len(metadata) = 1
    /\ NTotal = 1

\* C24: a load of a metadata artifact whose record count differs from the
\* index artifact's vector count returns False and leaves the store empty:
\* after every load that returned True the index holds as many vectors as
\* there are metadata records.
C24_LoadValidatesCounts ==
    LoadCalled =>
        /\ last.ret = TRUE => NTotal = Len(metadata)
        /\ (ReadsAsIndex(last.index_path) /\ ReadsAsMetadata(last.metadata_path)
              /\ Len(fs[last.index_path].vecs) # Len(fs[last.metadata_path].records))
              => (last.ret = FALSE /\ NTotal = 0 /\ metadata = <<>>)

\* what the code does: load returns True exactly when both artifacts
\* deserialize, whatever their counts
C24_LoadTrueWhenBothRead ==
    LoadCalled =>
        (last.ret = TRUE <=>
            ReadsAsIndex(last.index_path) /\ ReadsAsMetadata(last.metadata_path))

\* a load that returned True and left different counts
C24_WitnessMismatch ==
    /\ LoadCalled
    /\ last.ret = TRUE
    /\ NTotal # Len(metadata)

----------------------------------------------------------------------------
(* Properties of a store in use *)

SaveInterrupted == last.op = "save" /\ last.raised = "interrupted"

\* C25: save writes the metadata artifact before the index artifact: when
\* the process stops between the two writes the metadata artifact is already
\* the new one, so a newly written index artifact never lies next to an old
\* or missing metadata artifact.
C25_MetadataWrittenFirst ==
    SaveInterrupted =>
        /\ fs[last.metadata_path] = MetaFile(metadata)
        /\ fs[last.index_path] = IndexFile(index) =>
              fs[last.metadata_path] = MetaFile(metadata)

\* what the code does: at that point the index artifact is the new one and
\* the metadata artifact is as it was
C25_IndexWrittenFirst ==
    [][(last'.op = "save" /\ last'.raised = "interrupted") =>
          /\ fs'[last'.index_path] = IndexFile(index)
          /\ fs'[last'.metadata_path] = fs[last'.metadata_path]]_vars

\* a new index artifact of two vectors next to the metadata artifact of an
\* earlier save, of one record
C25_WitnessTornPair ==
    /\ SaveInterrupted
    /\ fs[last.index_path] = IndexFile(index)
    /\ NTotal = 2
    /\ ReadsAsMetadata(last.metadata_path)
    /\ Len(fs[last.metadata_path].records) = 1

ReadOnlyOps == {"search", "search_by_text", "get_size", "save"}

Scored(rec) == "similarity_score" \in DOMAIN rec

\* C29: search, search_by_text, get_size and save leave the in-memory store
\* as it was; the similarity_score of a result is written to a copy and is
\* in no stored record and in no saved artifact; a save that returns, returns
\* the two paths it was given.
C29_ReadOnlyOperations ==
    [][last'.op \in ReadOnlyOps =>
          /\ index' = index
          /\ metadata' = metadata
          /\ embedding_dim' = embedding_dim
          /\ \A i \in 1..Len(metadata') : ~Scored(metadata'[i])
          /\ \A p \in AllPaths :
                fs'[p].kind = "meta" =>
                    \A i \in 1..Len(fs'[p].records) : ~Scored(fs'[p].records[i])
          /\ (last'.op \in {"search", "search_by_text"} /\ last'.raised = "none") =>
                \A i \in 1..Len(last'.ret) : Scored(last'.ret[i])
          /\ (last'.op = "save" /\ last'.raised = "none") =>
                last'.ret = <<last'.index_path, last'.metadata_path>>]_vars

\* a query by text has returned a scored copy of a stored record
C29_Witness ==
    /\ last.op = "search_by_text"
    /\ last.raised = "none"
    /\ Len(last.ret) > 0
    /\ Scored(last.ret[1])
    /\ ~Scored(metadata[last.hits[1] + 1])
    /\ \A k \in DOMAIN metadata[last.hits[1] + 1] :
          last.ret[1][k] = metadata[last.hits[1] + 1][k]

\* a save has returned its paths and its metadata artifact holds the records
C29_WitnessSave ==
    /\ last.op = "save"
    /\ last.raised = "none"
    /\ last.ret = <<last.index_path, last.metadata_path>>
    /\ Len(metadata) > 0
    /\ fs[last.metadata_path] = MetaFile(metadata)

SearchCalled == last.op \in {"search", "search_by_text"}

\* C28: search reads no metadata out of range and does not raise because the
\* index and the metadata list differ in length: with more vectors than
\* records, or fewer, the hits that have no record are skipped and the others
\* are returned with their records.
C28_SearchSkipsHitsWithoutMetadata ==
    SearchCalled =>
        /\ last.raised # "IndexError"
        /\ last.raised = "none" =>
              /\ Len(last.ret) = Len(last.hits)
              /\ \A i \in 1..Len(last.hits) :
                    /\ last.hits[i] >= 0
                    /\ last.hits[i] < Len(metadata)
                    /\ last.hits[i] < NTotal
                    /\ last.ret[i] = Annotate(metadata[last.hits[i] + 1],
                                              L2Sqr(last.query,
                                                    index.vecs[last.hits[i] + 1]))
        /\ (NTotal # Len(metadata) /\ last.query.dim = index.d
              /\ SearchK(last.top_k) > 0) => last.raised = "none"

\* a search of a store with more vectors than records has skipped a hit
C28_Witness ==
    /\ SearchCalled
    /\ last.raised = "none"
    /\ NTotal > Len(metadata)
    /\ Len(metadata) > 0
    /\ Len(last.ret) < SearchK(last.top_k)

\* a search of a store with fewer vectors than records has skipped the padding
C28_WitnessFewerVectors ==
    /\ SearchCalled
    /\ last.raised = "none"
    /\ NTotal < Len(metadata)
    /\ Len(last.ret) < SearchK(last.top_k)

----------------------------------------------------------------------------
(* Properties of the store shared by two threads *)

AllIdle == \A t \in Threads : ~Adding(t)

\* C26: add_embeddings is not atomic: between the index append and the
\* metadata append of a call the index holds more vectors than there are
\* records, by what the calls in that position have still to append, and
\* the records are appended in the order of the metadata appends, whatever
\* the order of the index appends.
C26_AddNotAtomic ==
    /\ NTotal = Len(metadata)
                  + SumLen({t \in Threads : threads[t].pc = "metadata_extend"},
                           "metadata_list")
    /\ (last.op = "index_add" /\ threads[last.thread].pc = "metadata_extend") =>
          NTotal > Len(metadata)
    /\ AllIdle => NTotal = Len(metadata)

\* both index appends, then both metadata appends in the opposite order:
\* each record sits at the position of the other call's vector
C26_Witness ==
    /\ AllIdle
    /\ index.vecs = <<Vec(DefaultDim, <<1, 0>>), Vec(DefaultDim, <<0, 1>>)>>
    /\ metadata = <<MetaRecord(2), MetaRecord(1)>>

\* an intermediate state with more vectors than records
C26_WitnessCountsDiffer ==
    /\ \E t \in Threads : threads[t].pc = "metadata_extend"
    /\ NTotal # Len(metadata)

----------------------------------------------------------------------------
(* Properties of the embedder *)

EmbeddingsCalled == last.op = "get_embeddings"

\* the chunk (1, 2, ...) that the i-th text belongs to
ChunkOf(i) == ((i - 1) \div batch_size) + 1

\* the provider keeps its contract: one vector per input, or an error
ProviderContract ==
    \A c \in 1..Len(last.outcomes) : last.outcomes[c] \in {"ok", "error"}

\* C4: for every list of texts and every behaviour of the provider on each
\* chunk, get_embeddings returns exactly one vector per text, and the i-th
\* is the vector of the i-th text (or the placeholder of its failed chunk).
C4_LengthAndOrder ==
    EmbeddingsCalled =>
        /\ Len(last.ret) = Len(last.texts)
        /\ \A i \in 1..Len(last.texts) :
              last.ret[i] \in {Emb(last.texts[i]), Fallback}

\* the same, for a provider that keeps its contract
C4_LengthAndOrderUnderContract ==
    (EmbeddingsCalled /\ ProviderContract) =>
        /\ Len(last.ret) = Len(last.texts)
        /\ \A i \in 1..Len(last.texts) :
              last.ret[i] = IF last.outcomes[ChunkOf(i)] = "error"
                            THEN Fallback ELSE Emb(last.texts[i])

\* C5: when the request of a chunk fails, exactly the output slots of that
\* chunk hold all-zero vectors of the dimension D of the pipeline, the slots
\* of every other chunk hold the provider's vectors, and nothing is raised.
C5_FailedChunkZeroFilled ==
    (EmbeddingsCalled /\ \E c \in 1..Len(last.outcomes) : last.outcomes[c] = "error")
    => /\ last.raised = "none"
       /\ Len(last.ret) = Len(last.texts)
       /\ \A i \in 1..Len(last.texts) :
             last.ret[i] = IF last.outcomes[ChunkOf(i)] = "error"
                           THEN ZeroVector(embedding_dim)
                           ELSE Emb(last.texts[i])

\* the same with the zero vectors of 1536 components, for a provider that
\* keeps its contract
C5_FailedChunkFallbackUnderContract ==
    (/\ EmbeddingsCalled
     /\ ProviderContract
     /\ \E c \in 1..Len(last.outcomes) : last.outcomes[c] = "error")
    => /\ last.raised = "none"
       /\ Len(last.ret) = Len(last.texts)
       /\ \A i \in 1..Len(last.texts) :
             last.ret[i] = IF last.outcomes[ChunkOf(i)] = "error"
                           THEN ZeroVector(ZeroVectorDim)
                           ELSE Emb(last.texts[i])

\* C6: when the provider call fails, get_embedding raises nothing and
\* returns the all-zero vector of the dimension the pipeline's index was
\* constructed with.
C6_FailedEmbeddingZeroOfStoreDim ==
    (last.op = "get_embedding" /\ last.outcome = "error")
    => /\ last.raised = "none"
       /\ last.ret = ZeroVector(embedding_dim)
       /\ last.ret.dim = index.d

\* the same with the zero vector of 1536 components
C6_FailedEmbeddingFallback ==
    (last.op = "get_embedding" /\ last.outcome = "error")
    => /\ last.raised = "none"
       /\ last.ret = ZeroVector(ZeroVectorDim)

----------------------------------------------------------------------------
(* Properties of the requests of get_embeddings *)

\* ceil(n / d)
CeilDiv(n, d) == IF n % d = 0 THEN n \div d ELSE n \div d + 1

\* the k-th consecutive chunk of at most 20 texts
ConsecutiveChunk(texts, k) ==
    [j \in 1..(IF 20 * k <= Len(texts) THEN 20 ELSE Len(texts) - 20 * (k - 1)) |->
        texts[20 * (k - 1) + j]]

\* C22: get_embeddings on n texts sends ceil(n/20) requests, the k-th with
\* the k-th consecutive chunk of at most 20 texts, in input order, never a
\* request while another is unanswered, and one request per chunk whether it
\* failed or not; for n = 0 it sends none.
C22_RequestsSequentialNoRetry ==
    /\ loop.pc = "for" =>
          /\ loop.in_flight \in {0, 1}
          /\ Len(loop.requests) = loop.c + loop.in_flight
          /\ Len(loop.requests) <= CeilDiv(Len(loop.texts), 20)
          /\ \A k \in 1..Len(loop.requests) :
                loop.requests[k] = ConsecutiveChunk(loop.texts, k)
    /\ (last.op = "get_embeddings" /\ ~last.running) =>
          /\ Len(last.requests) = CeilDiv(Len(last.texts), 20)
          /\ \A k \in 1..Len(last.requests) :
                /\ last.requests[k] = ConsecutiveChunk(last.texts, k)
                /\ Len(last.requests[k]) \in 1..20
          /\ Len(last.texts) = 0 => last.requests = <<>>

\* a call on 41 texts whose second request failed: three requests
C22_Witness ==
    /\ last.op = "get_embeddings" /\ ~last.running
    /\ Len(last.texts) = 41
    /\ last.outcomes[2] = "error"
    /\ Len(last.requests) = 3
    /\ Len(last.requests[3]) = 1

\* a call on no texts returns without a request
C22_WitnessNoTexts ==
    /\ last.op = "get_embeddings" /\ ~last.running
    /\ last.texts = <<>>
    /\ last.requests = <<>>

\* the loop returns what get_embeddings is modelled to return as one step
C22_LoopIsGetEmbeddings ==
    (last.op = "get_embeddings" /\ ~last.running) =>
        last.ret = GetEmbeddings(last.texts, last.outcomes)

----------------------------------------------------------------------------
(* Properties of the pipeline *)

IngestCalled == last.op = "process_dog_data"

\* the last call was an ingest that returned its two timestamped paths
IngestReturnedPaths ==
    /\ IngestCalled
    /\ last.raised = "none"
    /\ last.ret[1] # NoPath /\ last.ret[2] # NoPath

\* every request of the last ingest was answered with one vector per text
ProviderAnswered == \A c \in DOMAIN last.outcomes : last.outcomes[c] = "ok"

\* every description cell of the table holds a text
DescriptionsFilled(input) ==
    \A i \in 1..Len(input.rows) : input.rows[i]["description"].kind = "str"

\* the last ingest added its N records to the S entries, returned the
\* timestamped paths, and the timestamped pair and the 'latest' pair hold
\* the S+N entries
IngestDone ==
    /\ IngestReturnedPaths
    /\ Len(metadata) = last.size_before + Len(last.input.rows)
    /\ NTotal = last.ntotal_before + Len(last.input.rows)
    /\ last.ret[1] \in {IndexPathAt(t) : t \in Timestamps}
    /\ last.ret[2] \in {MetadataPathAt(t) : t \in Timestamps}
    /\ fs[last.ret[1]] = IndexFile(index)
    /\ fs[last.ret[2]] = MetaFile(metadata)
    /\ fs[latest_index_path] = IndexFile(index)
    /\ fs[latest_metadata_path] = MetaFile(metadata)

\* the load of the 'latest' pair after an ingest, and the queries
LoadAndQueryDone ==
    /\ (last.op = "load_latest_vector_store" /\ saved.valid /\ saved.copied = "ok")
          => last.ret = TRUE
    /\ (last.op = "search_similar_dogs" /\ last.raised = "none") =>
          \A i \in 1..Len(last.ret) :
              {"name", "breed", "similarity_score"} \subseteq DOMAIN last.ret[i]

\* C13: process_dog_data on a readable input of N records, on a store of S
\* entries, with the provider answering and the copies succeeding, leaves
\* S+N entries, returns the non-empty timestamped paths and has written the
\* timestamped pair and the 'latest' pair with all S+N entries; the
\* load_latest_vector_store that follows returns True and queries return
\* records with name, breed and similarity_score.
C13_IngestReadable ==
    /\ (IngestCalled /\ last.input.readable /\ ProviderAnswered /\ last.copy = "ok")
          => IngestDone
    /\ LoadAndQueryDone

\* the same for inputs all of whose description cells hold a text
C13_IngestFilledDescriptions ==
    /\ (IngestCalled /\ last.input.readable /\ ProviderAnswered /\ last.copy = "ok"
          /\ DescriptionsFilled(last.input))
          => IngestDone
    /\ LoadAndQueryDone

\* a second ingest, of one record onto a store of one entry
C13_WitnessFilledDescriptions ==
    /\ IngestDone
    /\ last.size_before = 1
    /\ Len(metadata) = 2
    /\ last.ret[1] = IndexPathAt(2)

\* C14: when the input cannot be read or parsed, process_dog_data returns
\* ('', '') without raising, leaves the index and the metadata as they were,
\* and writes no file.
C14_UnreadableInput ==
    [][(last'.op = "process_dog_data" /\ ~last'.input.readable) =>
          /\ last'.raised = "none"
          /\ last'.ret = <<NoPath, NoPath>>
          /\ index' = index
          /\ metadata' = metadata
          /\ fs' = fs]_vars

\* an unreadable input given to a pipeline that holds entries and has artifacts
C14_Witness ==
    /\ IngestCalled
    /\ ~last.input.readable
    /\ last.ret = <<NoPath, NoPath>>
    /\ Len(metadata) > 0
    /\ Exists(latest_index_path)
    /\ Exists(IndexPathAt(1))

\* C15: the two 'latest' artifacts hold the store contents persisted by the
\* most recent ingest that returned non-empty paths.
C15_LatestIsLastIngest ==
    saved.valid =>
        /\ fs[latest_index_path] = IndexFile(saved.index)
        /\ fs[latest_metadata_path] = MetaFile(saved.metadata)

\* the same when the copies of that ingest succeeded
C15_LatestIsLastCopiedIngest ==
    (saved.valid /\ saved.copied = "ok") =>
        /\ fs[latest_index_path] = IndexFile(saved.index)
        /\ fs[latest_metadata_path] = MetaFile(saved.metadata)

\* the second ingest has replaced the 'latest' pair of the first
C15_WitnessCopied ==
    /\ saved.valid /\ saved.copied = "ok"
    /\ saved.index_path = IndexPathAt(2)
    /\ fs[latest_index_path] # fs[IndexPathAt(1)]
    /\ fs[latest_index_path] = fs[IndexPathAt(2)]

\* the 'latest' pair is the pair written by the ingest of second t
LatestFromIngest(t) ==
    /\ Exists(IndexPathAt(t))
    /\ fs[latest_index_path] = fs[IndexPathAt(t)]
    /\ fs[latest_metadata_path] = fs[MetadataPathAt(t)]

LatestCountsAgree ==
    /\ ReadsAsIndex(latest_index_path)
    /\ ReadsAsMetadata(latest_metadata_path)
    /\ Len(fs[latest_index_path].vecs) = Len(fs[latest_metadata_path].records)

\* C30: after any sequence of ingests, also when a copy to 'latest' failed
\* for one or both files, the 'latest' index and the 'latest' metadata come
\* from the same ingest and hold the same number of entries.
C30_LatestPairFromOneIngest ==
    saved.valid =>
        \/ ~Exists(latest_index_path) /\ ~Exists(latest_metadata_path)
        \/ LatestCountsAgree /\ \E t \in Timestamps : LatestFromIngest(t)

\* the same when the copies of the most recent ingest both succeeded
C30_LatestPairWhenCopied ==
    (saved.valid /\ saved.copied = "ok") =>
        LatestCountsAgree /\ \E t \in Timestamps : LatestFromIngest(t)

\* the metadata copy of the second ingest failed: 'latest' holds the index
\* of the second ingest next to the metadata of the first
C30_WitnessMixedPair ==
    /\ saved.valid /\ saved.copied = "metadata_fails"
    /\ fs[latest_index_path] = fs[IndexPathAt(2)]
    /\ fs[latest_metadata_path] = fs[MetadataPathAt(1)]
    /\ ~LatestCountsAgree

\* C16: load_latest_vector_store returns False without raising whenever one
\* of the two 'latest' artifacts is absent, and leaves the index and the
\* metadata as they were.
C16_LatestAbsent ==
    [][(last'.op = "load_latest_vector_store"
          /\ (~Exists(latest_index_path) \/ ~Exists(latest_metadata_path))) =>
          /\ last'.raised = "none"
          /\ last'.ret = FALSE
          /\ index' = index
          /\ metadata' = metadata]_vars

\* the 'latest' index is there and the 'latest' metadata is not, and the
\* store holds entries
C16_Witness ==
    /\ last.op = "load_latest_vector_store"
    /\ last.ret = FALSE
    /\ Exists(latest_index_path)
    /\ ~Exists(latest_metadata_path)
    /\ Len(metadata) > 0

\* the number of records of md with the dog_id id
CountId(md, id) == Cardinality({i \in 1..Len(md) : md[i].dog_id = id})

\* C17: ingest does not deduplicate: two ingests of the same N-record input
\* in a row, both returning paths, leave 2N more entries than before the
\* first, every dog_id of the input twice more.
C17_NoDeduplication ==
    [][(IngestReturnedPaths /\ IngestReturnedPaths' /\ last'.input = last.input) =>
          LET N == Len(last.input.rows)
              before == SubSeq(metadata, 1, last.size_before)
          IN /\ Len(metadata') = last.size_before + 2 * N
             /\ NTotal' = last.ntotal_before + 2 * N
             /\ \A i \in 1..N :
                   CountId(metadata', last.input.rows[i].dog_id) =
                       CountId(before, last.input.rows[i].dog_id) + 2]_vars

\* the same one-record input ingested twice into an empty store: two entries
\* with the same dog_id
C17_Witness ==
    /\ IngestReturnedPaths
    /\ Len(last.input.rows) = 1
    /\ last.size_before = 1
    /\ Len(metadata) = 2
    /\ NTotal = 2
    /\ metadata[1].dog_id = metadata[2].dog_id

\* C18: no public operation of the pipeline raises, whatever the provider
\* does and whatever the input file and the artifacts are (for inputs whose
\* description cells hold a text).
C18_NeverRaises ==
    (/\ last.op \in {"process_dog_data", "load_latest_vector_store",
                     "search_similar_dogs"}
     /\ IngestCalled => DescriptionsFilled(last.input))
        => last.raised = "none"

\* what holds: the ingest raises only when the provider's answer is short, when
\* the fallback vectors are not of the store's dimension, or on a blank
\* description; the query raises only on a fallback vector of another dimension
C18_RaisesOnlyOnProviderFailure ==
    /\ (IngestCalled /\ last.raised # "none") =>
          \/ ~ProviderAnswered
          \/ ~DescriptionsFilled(last.input)
    /\ (last.op = "search_similar_dogs" /\ last.raised # "none") =>
          last.outcome = "error" /\ embedding_dim # ZeroVectorDim
    /\ last.op = "load_latest_vector_store" => last.raised = "none"

----------------------------------------------------------------------------
(* Properties of the profile builder *)

ProfileCalled == last.op = "_create_dog_profile_text"

\* the labels in the order of the profile format
LabelOrder ==
    <<"Name", "Breed", "Sex", "Age", "Weight",
      "Description", "Temperament", "Special Needs", "Training">>
LabelKeys ==
    <<"name", "breed", "sex", "age", "weight",
      "description", "temperament", "special_needs", "training">>
LabelPos(label) == CHOOSE i \in 1..Len(LabelOrder) : LabelOrder[i] = label

\* text is made of lines "Label: value" in the fixed order, each label at most
\* once, the first five labels always there, every value that of its field
WellFormedProfile(text, dog_data) ==
    /\ Len(text) >= 5
    /\ \A i \in 1..5 : text[i].label = LabelOrder[i]
    /\ \A i \in 1..Len(text) : \E n \in 1..Len(LabelOrder) : LabelOrder[n] = text[i].label
    /\ \A i, j \in 1..Len(text) :
          i < j => LabelPos(text[i].label) < LabelPos(text[j].label)
    /\ \A i \in 1..Len(text) :
          text[i].value =
              Format(Get(dog_data, LabelKeys[LabelPos(text[i].label)], Unknown))

\* C19: building a profile text is pure: a call changes nothing of the store
\* or the files, a second call on the same field values returns the same
\* text, and the text is one "Label: value" line per rendered field in the
\* order Name, Breed, Sex, Age, Weight, Description, Temperament, Special
\* Needs, Training, the first five always present.
C19_ProfilePure ==
    [][last'.op = "_create_dog_profile_text" =>
          /\ WellFormedProfile(last'.ret, last'.dog_data)
          /\ (ProfileCalled /\ last.dog_data = last'.dog_data) => last'.ret = last.ret
          /\ UNCHANGED <<embedding_dim, index, metadata, fs>>]_vars

\* the second call on a mapping all of whose nine fields are rendered
C19_Witness ==
    /\ ProfileCalled
    /\ last.calls = 2
    /\ Len(last.ret) = Len(LabelOrder)
    /\ last.ret[6].value = Str("Friendly", 8)

\* a mapping with none of the optional fields: five lines
C19_WitnessFiveLines ==
    /\ ProfileCalled
    /\ Len(last.ret) = 5
    /\ DOMAIN last.dog_data = {"name", "breed", "sex", "age", "weight"}

\* the key is not in the mapping, or its value is '', nan (a blank cell) or None
NoValue(dog_data, key) ==
    key \notin DOMAIN dog_data \/ dog_data[key] \in {Empty, NaN, None}

HasLine(text, label) == \E i \in 1..Len(text) : text[i].label = label

\* C20: a name, breed, sex, age or weight that is absent from the mapping or
\* present with an empty or missing value is rendered as 'Unknown'; a
\* description, temperament, special_needs or training that is absent or
\* present with an empty or missing value gets no line; the build never fails.
C20_MissingRendersUnknown ==
    ProfileCalled =>
        /\ last.raised = "none"
        /\ \A n \in 1..5 :
              NoValue(last.dog_data, LabelKeys[n]) => last.ret[n].value = Unknown
        /\ \A n \in 6..Len(LabelOrder) :
              NoValue(last.dog_data, LabelKeys[n]) => ~HasLine(last.ret, LabelOrder[n])

\* what the code does: the defaults apply to a key that is not in the mapping;
\* a value that is there is rendered as it is when it is one of the first five
\* fields, and gets a line exactly when it is truthy otherwise
C20_AbsentKeyDefaults ==
    ProfileCalled =>
        /\ last.raised = "none"
        /\ \A n \in 1..5 :
              LabelKeys[n] \notin DOMAIN last.dog_data => last.ret[n].value = Unknown
        /\ \A n \in 6..Len(LabelOrder) :
              HasLine(last.ret, LabelOrder[n]) <=>
                  /\ LabelKeys[n] \in DOMAIN last.dog_data
                  /\ Truthy(last.dog_data[LabelKeys[n]])

\* a row with a blank name cell and a blank description cell
C20_WitnessBlankCells ==
    /\ ProfileCalled
    /\ "name" \in DOMAIN last.dog_data /\ last.dog_data["name"] = NaN
    /\ "description" \in DOMAIN last.dog_data /\ last.dog_data["description"] = NaN
    /\ last.ret[1] = Line("Name", Str("nan", 3))
    /\ last.ret[6] = Line("Description", Str("nan", 3))

----------------------------------------------------------------------------
(* Properties of the metadata extraction *)

ExtractCalled == last.op = "_extract_metadata"

\* the description of the row is a non-empty text
HasText(row) ==
    /\ "description" \in DOMAIN row
    /\ row["description"].kind = "str"
    /\ row["description"].len > 0

\* snippet is description when that has at most 200 characters, and its first
\* 200 characters followed by the 3 characters of '...' otherwise
SnippetOf(snippet, description) ==
    /\ snippet.kind = "str"
    /\ snippet.text = description.text
    /\ snippet.len <= SnippetLen + 3
    /\ IF description.len <= SnippetLen
       THEN snippet = description
       ELSE /\ snippet.len = SnippetLen + 3
            /\ "cut" \in DOMAIN snippet
            /\ snippet["cut"] = SnippetLen

\* C21: for every record with a non-empty description the extracted record has
\* a description_snippet that is the description when it has at most 200
\* characters and its first 200 characters followed by '...' otherwise (never
\* more than 203 characters); for a record whose description is absent or
\* empty (no column, '', a blank cell, None) the extraction does not fail.
C21_SnippetAndNoFailure ==
    ExtractCalled =>
        \A i \in 1..Len(last.df) :
            /\ HasText(last.df[i]) =>
                  /\ last.raised = "none"
                  /\ "description_snippet" \in DOMAIN last.ret[i]
                  /\ SnippetOf(last.ret[i]["description_snippet"],
                               last.df[i]["description"])
            /\ NoValue(last.df[i], "description") => last.raised = "none"

\* what the code does: the same, except that a blank cell (nan) makes the
\* extraction raise TypeError; without a description there is no snippet
C21_SnippetOfText ==
    ExtractCalled =>
        \A i \in 1..Len(last.df) :
            /\ HasText(last.df[i]) =>
                  /\ last.raised = "none"
                  /\ "description_snippet" \in DOMAIN last.ret[i]
                  /\ SnippetOf(last.ret[i]["description_snippet"],
                               last.df[i]["description"])
            /\ (NoValue(last.df[i], "description")
                  /\ Get(last.df[i], "description", Empty) # NaN) =>
                  /\ last.raised = "none"
                  /\ "description_snippet" \notin DOMAIN last.ret[i]
            /\ last.raised # "none" => Get(last.df[i], "description", Empty) = NaN

\* a description of 201 characters: a snippet of 203
C21_WitnessTruncated ==
    /\ ExtractCalled
    /\ last.raised = "none"
    /\ HasText(last.df[1])
    /\ last.df[1]["description"].len = SnippetLen + 1
    /\ last.ret[1]["description_snippet"].len = SnippetLen + 3

----------------------------------------------------------------------------
(* All operations together *)

Next ==
    NextMem \/ NextDisk \/ NextSave \/ NextConc \/ NextEmbed \/ NextPipe \/ NextProfile \/ NextExtract
        \/ NextRequests

Spec == Init /\ [][Next]_vars

====
